---- MODULE Spec2Model ----
(***************************************************************************)
(* Model of asn1-rs src/traits.rs: the blanket BER/DER parser entry points *)
(* (FromBer, FromDer), the DER serializer trait (ToDer) with its provided  *)
(* methods and its implementation for references, and the explicit and     *)
(* implicit tag wrappers.                                                  *)
(*                                                                         *)
(* traits.rs only sequences calls into collaborators that live in other    *)
(* files of the crate (Any::from_ber, Any::from_der, TryFrom<Any>,         *)
(* CheckDerConstraints implementations, the concrete ToDer                 *)
(* implementations, TaggedValue).  Those collaborators are modelled from   *)
(* the specification and are marked "collaborator" below.                  *)
(***************************************************************************)
EXTENDS Integers, Sequences, FiniteSets, TLC

VARIABLES
    bytes,      \* decode: the input buffer handed to from_ber / from_der
    ty,         \* decode: the target type T of the call
    ber,        \* decode: result of T::from_ber(bytes), or NotCalled
    der,        \* decode: result of T::from_der(bytes), or NotCalled
    val,        \* encode: the value being serialized
    made,       \* encode: the constructor call that produced val
    sink,       \* encode: the caller-supplied writer
    pre,        \* encode: the writer as it was before the last call
    op,         \* encode: the serializer operation called last, or "none"
    res,        \* encode: what that operation returned
    back,       \* encode: from_der on the bytes to_der_vec returned
    procVal,    \* shared writer: the value each concurrent write_der call encodes
    pc,         \* shared writer: where each call stands
    wrote,      \* shared writer: the count each call has accumulated (sz)
    shared,     \* shared writer: the writer all the calls write to
    serialized, \* shared writer: whether the caller serializes the calls
    lock,       \* shared writer: the call holding the caller's lock, or 0
    order       \* shared writer: the calls in the order they started

decVars == <<bytes, ty, ber, der>>
encVars == <<val, made, sink, pre, op, res, back>>
concVars == <<procVal, pc, wrote, shared, serialized, lock, order>>
vars == <<decVars, encVars, concVars>>

(***************************************************************************)
(* Bounds                                                                  *)
(***************************************************************************)
\* longest input buffer handed to the parsers
MaxLen == 5

\* the octets input buffers are built from: the tags of the modelled types
\* (BOOLEAN 01, INTEGER 02, SEQUENCE 30), the length octets 00, 01, 02 and
\* 80 (indefinite form), and the content octets 00, 01, 02, 80, FF
ByteSample == {0, 1, 2, 48, 128, 255}

Inputs == UNION {[1..n -> ByteSample] : n \in 0..MaxLen}

\* the types T the blanket implementations are instantiated at
Types == {"Boolean", "Integer", "Sequence"}

(***************************************************************************)
(* Collaborator: the generic node decoder (Any::from_ber / Any::from_der)  *)
(***************************************************************************)
\* identifier octet: class (bits 8-7), constructed flag (bit 6), tag number
Class(b) == b \div 64
Constructed(b) == (b \div 32) % 2 = 1
TagNumber(b) == b % 32

RECURSIVE BigEndian(_)
BigEndian(s) ==
    IF s = <<>> THEN 0
    ELSE 256 * BigEndian(SubSeq(s, 1, Len(s) - 1)) + s[Len(s)]

\* the length octets starting at position pos
ParseLength(b, pos) ==
    IF pos > Len(b) THEN [st |-> "Incomplete"]
    ELSE IF b[pos] < 128 THEN
        [st |-> "Ok", definite |-> TRUE, len |-> b[pos], next |-> pos + 1]
    ELSE IF b[pos] = 128 THEN
        [st |-> "Ok", definite |-> FALSE, len |-> 0, next |-> pos + 1]
    ELSE IF b[pos] = 255 THEN [st |-> "InvalidLength"]
    ELSE LET n == b[pos] - 128 IN
        IF pos + n > Len(b) THEN [st |-> "Incomplete"]
        ELSE [st |-> "Ok", definite |-> TRUE,
              len |-> BigEndian(SubSeq(b, pos + 1, pos + n)),
              next |-> pos + n + 1]

\* ObjEnd: the extent of the object starting at pos: where its content starts
\* (from), where its content stops (to, exclusive) and where the next object
\* starts (end).  ContentEnd: the position of the end-of-contents octets
\* 00 00 closing an indefinite-length content that starts at pos.
RECURSIVE ObjEnd(_, _), ContentEnd(_, _)
ObjEnd(b, pos) ==
    IF pos > Len(b) THEN [st |-> "Incomplete"]
    ELSE LET L == ParseLength(b, pos + 1) IN
        IF L.st # "Ok" THEN [st |-> L.st]
        ELSE IF L.definite THEN
            IF L.next + L.len - 1 > Len(b) THEN [st |-> "Incomplete"]
            ELSE [st |-> "Ok", definite |-> TRUE, from |-> L.next,
                  to |-> L.next + L.len, end |-> L.next + L.len]
        \* X.690 8.1.3.2: a primitive encoding uses the definite form
        ELSE IF ~Constructed(b[pos]) THEN [st |-> "ConstructExpected"]
        ELSE LET c == ContentEnd(b, L.next) IN
            IF c.st # "Ok" THEN [st |-> c.st]
            ELSE [st |-> "Ok", definite |-> FALSE, from |-> L.next,
                  to |-> c.eoc, end |-> c.eoc + 2]

ContentEnd(b, pos) ==
    IF pos + 1 > Len(b) THEN [st |-> "Incomplete"]
    ELSE IF b[pos] = 0 /\ b[pos + 1] = 0 THEN [st |-> "Ok", eoc |-> pos]
    ELSE LET o == ObjEnd(b, pos) IN
        IF o.st # "Ok" THEN [st |-> o.st] ELSE ContentEnd(b, o.end)

NoAny == [header |-> [class |-> 0, constructed |-> FALSE, tag |-> 0,
                      length |-> [definite |-> TRUE, n |-> 0]],
          data |-> <<>>]

\* the three-way result of the node decoder: Ok (rest, any), Incomplete, or
\* Failure carrying the structural error
DecodeNode(b) ==
    LET o == ObjEnd(b, 1) IN
    IF o.st = "Ok" THEN
        [kind |-> "Ok", err |-> "none",
         rest |-> SubSeq(b, o.end, Len(b)),
         any |-> [header |-> [class |-> Class(b[1]),
                              constructed |-> Constructed(b[1]),
                              tag |-> TagNumber(b[1]),
                              length |-> [definite |-> o.definite,
                                          n |-> o.to - o.from]],
                  data |-> SubSeq(b, o.from, o.to - 1)]]
    ELSE IF o.st = "Incomplete" THEN
        [kind |-> "Incomplete", err |-> "Incomplete", rest |-> <<>>, any |-> NoAny]
    ELSE [kind |-> "Failure", err |-> o.st, rest |-> <<>>, any |-> NoAny]

Any_from_ber(b) == DecodeNode(b)
Any_from_der(b) == DecodeNode(b)

is_definite(length) == length.definite

(***************************************************************************)
(* Collaborator: the per-type conversion TryFrom<Any> and the per-type     *)
(* DER constraint check CheckDerConstraints::check_constraints             *)
(***************************************************************************)
NoValue == [t |-> "none"]

\* an entry point that has not been called
NotCalled == [kind |-> "NotCalled"]

\* two's complement value of a non-empty big-endian octet string
TwosComplement(s) ==
    IF s[1] >= 128 THEN BigEndian(s) - BigEndian(<<1>> \o [i \in 1..Len(s) |-> 0])
    ELSE BigEndian(s)

\* Result<T, Error> of the conversion
try_into(T, any) ==
    LET h == any.header IN
    CASE T = "Boolean" ->
            IF h.class # 0 \/ h.tag # 1 THEN [ok |-> FALSE, err |-> "UnexpectedTag", value |-> NoValue]
            ELSE IF h.constructed THEN [ok |-> FALSE, err |-> "ConstructUnexpected", value |-> NoValue]
            ELSE IF Len(any.data) # 1 THEN [ok |-> FALSE, err |-> "InvalidLength", value |-> NoValue]
            ELSE [ok |-> TRUE, err |-> "none",
                  value |-> [t |-> "Boolean", b |-> any.data[1] # 0]]
      [] T = "Integer" ->
            IF h.class # 0 \/ h.tag # 2 THEN [ok |-> FALSE, err |-> "UnexpectedTag", value |-> NoValue]
            ELSE IF h.constructed THEN [ok |-> FALSE, err |-> "ConstructUnexpected", value |-> NoValue]
            ELSE IF Len(any.data) = 0 THEN [ok |-> FALSE, err |-> "InvalidLength", value |-> NoValue]
            ELSE [ok |-> TRUE, err |-> "none",
                  value |-> [t |-> "Integer", n |-> TwosComplement(any.data)]]
      [] T = "Sequence" ->
            IF h.class # 0 \/ h.tag # 16 THEN [ok |-> FALSE, err |-> "UnexpectedTag", value |-> NoValue]
            ELSE IF ~h.constructed THEN [ok |-> FALSE, err |-> "ConstructExpected", value |-> NoValue]
            ELSE [ok |-> TRUE, err |-> "none",
                  value |-> [t |-> "Sequence", content |-> any.data]]

\* Result<()> of the DER constraint check: canonical BOOLEAN value,
\* minimal-length INTEGER content; a SEQUENCE has no constraint of its own
check_constraints(T, any) ==
    LET d == any.data IN
    CASE T = "Boolean" ->
            IF Len(d) # 1 THEN [ok |-> FALSE, err |-> "InvalidLength"]
            ELSE IF d[1] \notin {0, 255} THEN [ok |-> FALSE, err |-> "DerConstraintFailed"]
            ELSE [ok |-> TRUE, err |-> "none"]
      [] T = "Integer" ->
            IF Len(d) = 0 THEN [ok |-> FALSE, err |-> "InvalidLength"]
            ELSE IF Len(d) > 1 /\ d[1] = 0 /\ d[2] < 128 THEN [ok |-> FALSE, err |-> "DerConstraintFailed"]
            ELSE IF Len(d) > 1 /\ d[1] = 255 /\ d[2] >= 128 THEN [ok |-> FALSE, err |-> "DerConstraintFailed"]
            ELSE [ok |-> TRUE, err |-> "none"]
      [] T = "Sequence" -> [ok |-> TRUE, err |-> "none"]

(***************************************************************************)
(* FromBer / FromDer: the blanket implementations                          *)
(***************************************************************************)
\* a ParseResult<T> together with the log of the steps the call ran, each
\* with the argument it was given
ParseOk(i, v, log) ==
    [kind |-> "Ok", err |-> "none", rest |-> i, value |-> v, steps |-> log]
ParseErr(k, e, log) ==
    [kind |-> k, err |-> e, rest |-> <<>>, value |-> NoValue, steps |-> log]

Step(name, arg) == [op |-> name, arg |-> arg]

\* from_ber that also insists on consuming the whole buffer
from_ber_all_consuming(T, b) ==
    LET r == Any_from_ber(b)
        s1 == <<Step("Any::from_ber", b)>>
    IN  IF r.kind # "Ok" THEN ParseErr(r.kind, r.err, s1)
        ELSE IF r.rest # <<>> THEN ParseErr("Failure", "TrailingData", s1)
        ELSE LET c == try_into(T, r.any)
                 s2 == Append(s1, Step("try_into", r.any))
             IN  IF ~c.ok THEN ParseErr("Failure", c.err, s2)
                 ELSE ParseOk(r.rest, c.value, s2)

\* from_ber that reports a rejected conversion as the recoverable nom::Err::Error
from_ber_recoverable(T, b) ==
    LET r == Any_from_ber(b)
        s1 == <<Step("Any::from_ber", b)>>
    IN  IF r.kind # "Ok" THEN ParseErr(r.kind, r.err, s1)
        ELSE LET c == try_into(T, r.any)
                 s2 == Append(s1, Step("try_into", r.any))
             IN  IF ~c.ok THEN ParseErr("Error", c.err, s2)
                 ELSE ParseOk(r.rest, c.value, s2)

from_ber(T, b) ==
    LET r == Any_from_ber(b)
        s1 == <<Step("Any::from_ber", b)>>
    IN  IF r.kind # "Ok" THEN ParseErr(r.kind, r.err, s1)
        ELSE LET c == try_into(T, r.any)
                 s2 == Append(s1, Step("try_into", r.any))
             IN  IF ~c.ok THEN ParseErr("Failure", c.err, s2)
                 ELSE ParseOk(r.rest, c.value, s2)

\* from_der without the X.690 10.1 definite-length test
from_der_no_length_test(T, b) ==
    LET r == Any_from_der(b)
        s1 == <<Step("Any::from_der", b)>>
    IN  IF r.kind # "Ok" THEN ParseErr(r.kind, r.err, s1)
        ELSE LET k == check_constraints(T, r.any)
                 s3 == Append(s1, Step("check_constraints", r.any))
             IN  IF ~k.ok THEN ParseErr("Failure", k.err, s3)
                 ELSE LET c == try_into(T, r.any)
                          s4 == Append(s3, Step("try_into", r.any))
                      IN  IF ~c.ok THEN ParseErr("Failure", c.err, s4)
                          ELSE ParseOk(r.rest, c.value, s4)

\* from_der that converts first and checks the DER constraints afterwards
from_der_convert_first(T, b) ==
    LET r == Any_from_der(b)
        s1 == <<Step("Any::from_der", b)>>
    IN  IF r.kind # "Ok" THEN ParseErr(r.kind, r.err, s1)
        ELSE LET s2 == Append(s1, Step("is_definite", r.any)) IN
             IF ~is_definite(r.any.header.length)
             THEN ParseErr("Failure", "IndefiniteLengthUnexpected", s2)
             ELSE LET c == try_into(T, r.any)
                      s3 == Append(s2, Step("try_into", r.any))
                  IN  IF ~c.ok THEN ParseErr("Failure", c.err, s3)
                      ELSE LET k == check_constraints(T, r.any)
                               s4 == Append(s3, Step("check_constraints", r.any))
                           IN  IF ~k.ok THEN ParseErr("Failure", k.err, s4)
                               ELSE ParseOk(r.rest, c.value, s4)

from_der(T, b) ==
    LET r == Any_from_der(b)
        s1 == <<Step("Any::from_der", b)>>
    IN  IF r.kind # "Ok" THEN ParseErr(r.kind, r.err, s1)
        ELSE LET s2 == Append(s1, Step("is_definite", r.any)) IN
             IF ~is_definite(r.any.header.length)
             THEN ParseErr("Failure", "IndefiniteLengthUnexpected", s2)
             ELSE LET k == check_constraints(T, r.any)
                      s3 == Append(s2, Step("check_constraints", r.any))
                  IN  IF ~k.ok THEN ParseErr("Failure", k.err, s3)
                      ELSE LET c == try_into(T, r.any)
                               s4 == Append(s3, Step("try_into", r.any))
                           IN  IF ~c.ok THEN ParseErr("Failure", c.err, s4)
                               ELSE ParseOk(r.rest, c.value, s4)

(***************************************************************************)
(* The writer: std::io::Write as the serializer uses it.  A Vec<u8> grows  *)
(* and never fails; a caller-supplied writer of fixed capacity reports an  *)
(* I/O error for a write that does not fit.  calls logs the required       *)
(* methods (write_der_header, write_der_content) invoked on the writer.    *)
(***************************************************************************)
NewVec == [buf |-> <<>>, growable |-> TRUE, cap |-> 0, calls |-> <<>>]

WriteOk(n, w) == [ok |-> TRUE, n |-> n, err |-> "none", w |-> w]
WriteErr(e, w) == [ok |-> FALSE, n |-> 0, err |-> e, w |-> w]

SinkWrite(w, bs) ==
    IF ~w.growable /\ Len(w.buf) + Len(bs) > w.cap THEN WriteErr("IoError", w)
    ELSE WriteOk(Len(bs), [w EXCEPT !.buf = @ \o bs])

Log(w, name, self) == [w EXCEPT !.calls = Append(@, [op |-> name, self |-> self])]

(***************************************************************************)
(* Collaborator: DER octets of lengths and INTEGER contents                *)
(***************************************************************************)
RECURSIVE Pow256(_)
Pow256(k) == IF k = 0 THEN 1 ELSE 256 * Pow256(k - 1)

\* m >= 0 as k big-endian octets
RECURSIVE ToBytes(_, _)
ToBytes(m, k) == IF k = 0 THEN <<>> ELSE Append(ToBytes(m \div 256, k - 1), m % 256)

RECURSIVE NatWidth(_, _)
NatWidth(n, k) == IF n < Pow256(k) THEN k ELSE NatWidth(n, k + 1)

RECURSIVE IntWidth(_, _)
IntWidth(n, k) ==
    IF -(Pow256(k) \div 2) <= n /\ n < Pow256(k) \div 2 THEN k ELSE IntWidth(n, k + 1)

\* minimal two's complement content octets of an INTEGER
IntBytes(n) ==
    LET k == IntWidth(n, 1) IN ToBytes(IF n < 0 THEN n + Pow256(k) ELSE n, k)

\* definite-form length octets: short form below 128, long form otherwise
EncodeLength(n) ==
    IF n < 128 THEN <<n>>
    ELSE LET k == NatWidth(n, 1) IN <<128 + k>> \o ToBytes(n, k)

HeaderBytes(id, n) == <<id>> \o EncodeLength(n)

(***************************************************************************)
(* Collaborator: TaggedValue and the values that implement ToDer           *)
(***************************************************************************)
TaggedValue_new_explicit(class, tag, inner) ==
    [t |-> "Explicit", class |-> class, tag |-> tag, inner |-> inner]

TaggedValue_new_implicit(class, structured, tag, inner) ==
    [t |-> "Implicit", class |-> class, structured |-> structured, tag |-> tag,
     inner |-> inner]

\* &T
Ref(v) == [t |-> "Ref", to |-> v]

(***************************************************************************)
(* ToDer: required methods as the modelled types implement them            *)
(* (collaborators), the implementation for &T, and the provided methods    *)
(***************************************************************************)
RECURSIVE to_der_len(_), write_der_header(_, _), write_der_content(_, _)
RECURSIVE write_der(_, _)

LenOk(n) == [ok |-> TRUE, n |-> n, err |-> "none"]
LenErr(e) == [ok |-> FALSE, n |-> 0, err |-> e]

\* the identifier octet of a tagged wrapper
WrapperId(class, structured, tag) == class * 64 + structured * 32 + tag

\* T::to_der_len: the length of the whole encoding, header and content
T_to_der_len(self) ==
    LET whole(n) == LenOk(Len(HeaderBytes(0, n)) + n) IN
    CASE self.t = "Integer" -> whole(Len(IntBytes(self.n)))
      [] self.t = "Boolean" -> whole(1)
      [] self.t = "Sequence" -> whole(Len(self.content))
      [] self.t = "Any" -> whole(Len(self.data))
      [] self.t = "Failing" -> whole(Len(self.data))
      [] self.t = "Explicit" ->
            LET l == to_der_len(self.inner) IN
            IF ~l.ok THEN l ELSE whole(l.n)
      [] self.t = "Implicit" ->
            LET c == write_der_content(self.inner, NewVec) IN
            IF ~c.ok THEN LenErr(c.err) ELSE whole(c.n)

\* T::write_der_header.  An explicit wrapper sizes its header with the
\* inner value's to_der_len; an implicit wrapper measures the inner content
\* by writing it to a scratch buffer first.
T_write_der_header(self, writer) ==
    CASE self.t = "Integer" -> SinkWrite(writer, HeaderBytes(2, Len(IntBytes(self.n))))
      [] self.t = "Boolean" -> SinkWrite(writer, HeaderBytes(1, 1))
      [] self.t = "Sequence" -> SinkWrite(writer, HeaderBytes(48, Len(self.content)))
      [] self.t = "Any" -> SinkWrite(writer, HeaderBytes(self.id, Len(self.data)))
      [] self.t = "Failing" ->
            IF self.fail = "header" THEN WriteErr("InvalidLength", writer)
            ELSE SinkWrite(writer, HeaderBytes(4, Len(self.data)))
      [] self.t = "Explicit" ->
            LET l == to_der_len(self.inner) IN
            IF ~l.ok THEN WriteErr(l.err, writer)
            ELSE SinkWrite(writer, HeaderBytes(WrapperId(self.class, 1, self.tag), l.n))
      [] self.t = "Implicit" ->
            LET c == write_der_content(self.inner, NewVec) IN
            IF ~c.ok THEN WriteErr(c.err, writer)
            ELSE SinkWrite(writer,
                    HeaderBytes(WrapperId(self.class, self.structured, self.tag), c.n))

\* T::write_der_content.  An explicit wrapper's content is the inner value's
\* whole encoding, an implicit wrapper's content is the inner value's content.
T_write_der_content(self, writer) ==
    CASE self.t = "Integer" -> SinkWrite(writer, IntBytes(self.n))
      [] self.t = "Boolean" -> SinkWrite(writer, IF self.b THEN <<255>> ELSE <<0>>)
      [] self.t = "Sequence" -> SinkWrite(writer, self.content)
      [] self.t = "Any" -> SinkWrite(writer, self.data)
      [] self.t = "Failing" ->
            IF self.fail = "content" THEN WriteErr("InvalidLength", writer)
            ELSE SinkWrite(writer, self.data)
      [] self.t = "Explicit" -> write_der(self.inner, writer)
      [] self.t = "Implicit" -> write_der_content(self.inner, writer)

\* Any::write_der_raw: the header octets as received, then the content
Any_write_der_raw(self, writer) ==
    LET h == SinkWrite(writer, <<self.id>> \o self.rawlen) IN
    IF ~h.ok THEN h
    ELSE LET c == SinkWrite(h.w, self.data) IN
         IF ~c.ok THEN c ELSE WriteOk(h.n + c.n, c.w)

\* impl ToDer for &T
Ref_to_der_len(self) == to_der_len(self.to)
Ref_write_der_header(self, writer) == write_der_header(self.to, writer)
Ref_write_der_content(self, writer) == write_der_content(self.to, writer)

\* the required methods, dispatched on the implementing type
to_der_len(self) ==
    IF self.t = "Ref" THEN Ref_to_der_len(self) ELSE T_to_der_len(self)

write_der_header(self, writer) ==
    LET w == Log(writer, "write_der_header", self) IN
    IF self.t = "Ref" THEN Ref_write_der_header(self, w)
    ELSE T_write_der_header(self, w)

write_der_content(self, writer) ==
    LET w == Log(writer, "write_der_content", self) IN
    IF self.t = "Ref" THEN Ref_write_der_content(self, w)
    ELSE T_write_der_content(self, w)

\* write_der that writes the content before the header
write_der_content_first(self, writer) ==
    LET c == write_der_content(self, writer) IN
    IF ~c.ok THEN c
    ELSE LET h == write_der_header(self, c.w) IN
         IF ~h.ok THEN h ELSE WriteOk(c.n + h.n, h.w)

\* write_der that goes on to the content although the header write failed
write_der_ignores_header_error(self, writer) ==
    LET h == write_der_header(self, writer)
        c == write_der_content(self, h.w)
    IN  IF ~c.ok THEN c ELSE WriteOk(h.n + c.n, c.w)

\* ToDer::write_der (provided)
write_der(self, writer) ==
    LET h == write_der_header(self, writer) IN
    IF ~h.ok THEN h
    ELSE LET c == write_der_content(self, h.w) IN
         IF ~c.ok THEN c ELSE WriteOk(h.n + c.n, c.w)

\* ToDer::write_der_raw (provided)
ToDer_write_der_raw(self, writer) == write_der(self, writer)

\* write_der_raw, dispatched: Any supplies its own, every other type
\* (references included) has the provided one
write_der_raw(self, writer) ==
    IF self.t = "Any" THEN Any_write_der_raw(self, writer)
    ELSE ToDer_write_der_raw(self, writer)

VecOk(v, w) == [ok |-> TRUE, bytes |-> v, err |-> "none", w |-> w]
VecErr(e, w) == [ok |-> FALSE, bytes |-> <<>>, err |-> e, w |-> w]

\* ToDer::to_der_vec (provided); w is the local Vec as the call left it
to_der_vec(self) ==
    LET r == write_der(self, NewVec) IN
    IF ~r.ok THEN VecErr(r.err, r.w) ELSE VecOk(r.w.buf, r.w)

\* ToDer::to_der_vec_raw (provided)
to_der_vec_raw(self) ==
    LET r == write_der_raw(self, NewVec) IN
    IF ~r.ok THEN VecErr(r.err, r.w) ELSE VecOk(r.w.buf, r.w)

(***************************************************************************)
(* AsTaggedExplicit / AsTaggedImplicit                                     *)
(***************************************************************************)
\* explicit that builds an implicit, constructed wrapper
explicit_as_implicit(self, class, tag) ==
    TaggedValue_new_implicit(class, 1, tag, self)

explicit(self, class, tag) == TaggedValue_new_explicit(class, tag, self)

\* implicit that builds an explicit wrapper
implicit_as_explicit(self, class, structured, tag) ==
    TaggedValue_new_explicit(class, tag, self)

implicit(self, class, structured, tag) ==
    TaggedValue_new_implicit(class, structured, tag, self)

(***************************************************************************)
(* Encoding: one value, one writer, one serializer call                    *)
(***************************************************************************)
\* largest tag number given to explicit() / implicit()
MaxTag == 1
\* largest capacity of the caller-supplied writer
MaxCap == 8
\* how many constructors (explicit, implicit, &) are applied on top of a value
MaxWrap == 1

IntSample == {-129, -1, 0, 4, 128}
\* Class::Application, Class::ContextSpecific
Classes == {1, 2}

\* an INTEGER 4 received with a long-form length (02 81 01 04): valid BER
\* that the canonical header 02 01 does not reproduce
BaseValues ==
    {[t |-> "Integer", n |-> n] : n \in IntSample}
    \cup {[t |-> "Boolean", b |-> b] : b \in BOOLEAN}
    \cup {[t |-> "Sequence", content |-> c] : c \in {<<>>, <<2, 1, 4>>}}
    \cup {[t |-> "Any", id |-> 2, rawlen |-> l, data |-> <<4>>] : l \in {<<1>>, <<129, 1>>}}
    \cup {[t |-> "Failing", fail |-> f, data |-> <<9>>] : f \in {"header", "content"}}

\* a writer that already holds an encoding (NULL, 05 00), or an empty one
Sinks ==
    {[buf |-> b, growable |-> FALSE, cap |-> c, calls |-> <<>>] :
        b \in {<<>>, <<5, 0>>}, c \in 0..MaxCap}

RECURSIVE Depth(_)
Depth(v) ==
    IF v.t = "Ref" THEN 1 + Depth(v.to)
    ELSE IF v.t \in {"Explicit", "Implicit"} THEN 1 + Depth(v.inner)
    ELSE 0

Made(how, class, structured, tag, inner) ==
    [how |-> how, class |-> class, structured |-> structured, tag |-> tag,
     inner |-> inner]

\* every serializer call reports [ok, n, bytes, err, w]: w is the writer as
\* the call left it (the local Vec for to_der_vec / to_der_vec_raw)
Res(ok, n, bs, e, w) == [ok |-> ok, n |-> n, bytes |-> bs, err |-> e, w |-> w]
NoRes == Res(FALSE, 0, <<>>, "none", NewVec)

FromWrite(r) == Res(r.ok, r.n, <<>>, r.err, r.w)
FromVec(r) == Res(r.ok, Len(r.bytes), r.bytes, r.err, r.w)
FromLen(r, w) == Res(r.ok, r.n, <<>>, r.err, w)

WriterOps == {"write_der_header", "write_der_content", "write_der", "write_der_raw"}
VecOps == {"to_der_vec", "to_der_vec_raw"}

\* operation name of value v on writer w
ApplyOp(name, v, w) ==
    CASE name = "to_der_len" -> FromLen(to_der_len(v), w)
      [] name = "write_der_header" -> FromWrite(write_der_header(v, w))
      [] name = "write_der_content" -> FromWrite(write_der_content(v, w))
      [] name = "write_der" -> FromWrite(write_der(v, w))
      [] name = "write_der_raw" -> FromWrite(write_der_raw(v, w))
      [] name = "to_der_vec" -> FromVec(to_der_vec(v))
      [] name = "to_der_vec_raw" -> FromVec(to_der_vec_raw(v))

EncIdle ==
    /\ val = [t |-> "Boolean", b |-> FALSE]
    /\ made = Made("given", 0, 0, 0, val)
    /\ sink = NewVec
    /\ pre = NewVec
    /\ op = "none"
    /\ res = NoRes
    /\ back = NotCalled

DecIdle ==
    /\ bytes = <<>>
    /\ ty = "Integer"
    /\ ber = NotCalled
    /\ der = NotCalled

ConcIdle ==
    /\ procVal = <<>>
    /\ pc = <<>>
    /\ wrote = <<>>
    /\ shared = NewVec
    /\ serialized = FALSE
    /\ lock = 0
    /\ order = <<>>

InitEnc ==
    /\ val \in BaseValues
    /\ made = Made("given", 0, 0, 0, val)
    /\ sink \in {w \in Sinks : Len(w.buf) <= w.cap}
    /\ pre = sink
    /\ op = "none"
    /\ res = NoRes
    /\ back = NotCalled
    /\ DecIdle
    /\ ConcIdle

CallExplicit(class, tag) ==
    /\ op = "none" /\ Depth(val) < MaxWrap
    /\ val' = explicit(val, class, tag)
    /\ made' = Made("explicit", class, 1, tag, val)
    /\ UNCHANGED <<sink, pre, op, res, back, decVars, concVars>>

CallImplicit(class, structured, tag) ==
    /\ op = "none" /\ Depth(val) < MaxWrap
    /\ val' = implicit(val, class, structured, tag)
    /\ made' = Made("implicit", class, structured, tag, val)
    /\ UNCHANGED <<sink, pre, op, res, back, decVars, concVars>>

TakeRef ==
    /\ op = "none" /\ Depth(val) < MaxWrap
    /\ val' = Ref(val)
    /\ made' = Made("ref", 0, 0, 0, val)
    /\ UNCHANGED <<sink, pre, op, res, back, decVars, concVars>>

Call(name) ==
    /\ op = "none"
    /\ op' = name
    /\ pre' = sink
    /\ res' = ApplyOp(name, val, sink)
    /\ sink' = IF name \in WriterOps THEN res'.w ELSE sink
    /\ UNCHANGED <<val, made, back, decVars, concVars>>

CallToDerLen == Call("to_der_len")
CallWriteDerHeader == Call("write_der_header")
CallWriteDerContent == Call("write_der_content")
CallWriteDer == Call("write_der")
CallWriteDerRaw == Call("write_der_raw")
CallToDerVec == Call("to_der_vec")
CallToDerVecRaw == Call("to_der_vec_raw")

\* T::from_der on the bytes to_der_vec returned, for the types that decode
DecodeBack ==
    /\ op = "to_der_vec" /\ res.ok
    /\ val.t \in Types
    /\ back.kind = "NotCalled"
    /\ back' = from_der(val.t, res.bytes)
    /\ UNCHANGED <<val, made, sink, pre, op, res, decVars, concVars>>

NextEnc ==
    \/ \E c \in Classes, n \in 0..MaxTag : CallExplicit(c, n)
    \/ \E c \in Classes, st \in {0, 1}, n \in 0..MaxTag : CallImplicit(c, st, n)
    \/ TakeRef
    \/ CallToDerLen
    \/ CallWriteDerHeader
    \/ CallWriteDerContent
    \/ CallWriteDer
    \/ CallWriteDerRaw
    \/ CallToDerVec
    \/ CallToDerVecRaw
    \/ DecodeBack

SpecEnc == InitEnc /\ [][NextEnc]_vars

(***************************************************************************)
(* Concurrent write_der calls on one shared writer.  write_der is two      *)
(* separate calls on the writer (header, then content); another call may   *)
(* run between them unless the caller holds a lock around write_der.       *)
(***************************************************************************)
\* number of concurrent write_der calls
NProc == 2
Procs == 1..NProc

ConcValues == {[t |-> "Integer", n |-> 4], [t |-> "Boolean", b |-> TRUE],
               [t |-> "Integer", n |-> 128]}

InitConc ==
    /\ procVal \in [Procs -> ConcValues]
    /\ pc = [p \in Procs |-> "idle"]
    /\ wrote = [p \in Procs |-> 0]
    /\ shared = NewVec
    /\ serialized \in BOOLEAN
    /\ lock = 0
    /\ order = <<>>
    /\ DecIdle
    /\ EncIdle

\* the caller starts write_der, taking its lock first if it serializes
Enter(p) ==
    /\ pc[p] = "idle"
    /\ serialized => lock = 0
    /\ lock' = IF serialized THEN p ELSE lock
    /\ pc' = [pc EXCEPT ![p] = "header"]
    /\ order' = Append(order, p)
    /\ UNCHANGED <<procVal, wrote, shared, serialized, decVars, encVars>>

\* the first step writes the content instead of the header
WriteHeader_content(p) ==
    /\ pc[p] = "header"
    /\ LET r == write_der_content(procVal[p], shared) IN
        /\ shared' = r.w
        /\ wrote' = [wrote EXCEPT ![p] = r.n]
        /\ pc' = [pc EXCEPT ![p] = IF r.ok THEN "content" ELSE "done"]
        /\ lock' = IF r.ok THEN lock ELSE 0
    /\ UNCHANGED <<procVal, serialized, order, decVars, encVars>>

\* let sz = self.write_der_header(writer)?;
WriteHeader(p) ==
    /\ pc[p] = "header"
    /\ LET r == write_der_header(procVal[p], shared) IN
        /\ shared' = r.w
        /\ wrote' = [wrote EXCEPT ![p] = r.n]
        /\ pc' = [pc EXCEPT ![p] = IF r.ok THEN "content" ELSE "done"]
        /\ lock' = IF r.ok THEN lock ELSE 0
    /\ UNCHANGED <<procVal, serialized, order, decVars, encVars>>

\* let sz = sz + self.write_der_content(writer)?; Ok(sz)
WriteContent(p) ==
    /\ pc[p] = "content"
    /\ LET r == write_der_content(procVal[p], shared) IN
        /\ shared' = r.w
        /\ wrote' = [wrote EXCEPT ![p] = @ + r.n]
    /\ pc' = [pc EXCEPT ![p] = "done"]
    /\ lock' = 0
    /\ UNCHANGED <<procVal, serialized, order, decVars, encVars>>

NextConc == \E p \in Procs : Enter(p) \/ WriteHeader(p) \/ WriteContent(p)

SpecConc == InitConc /\ [][NextConc]_vars

\* no write_der call is between its two writes
Quiet == \A p \in DOMAIN pc : pc[p] \in {"idle", "done"}

\* the whole encodings of the calls in s, back to back
RECURSIVE WholeEncodings(_)
WholeEncodings(s) ==
    IF s = <<>> THEN <<>>
    ELSE WholeEncodings(SubSeq(s, 1, Len(s) - 1)) \o to_der_vec(procVal[s[Len(s)]]).bytes

RECURSIVE TotalLength(_)
TotalLength(s) ==
    IF s = <<>> THEN 0 ELSE TotalLength(Tail(s)) + to_der_len(procVal[Head(s)]).n

\* C10 (non-atomic encode on a shared writer): when the caller serializes the
\* calls, the writer holds the whole encodings back to back, in the order the
\* calls ran, whenever no call is in progress; without serialization the
\* writer still receives every octet and every call returns its own count,
\* but the octets of different calls may interleave (C10_Witness).
C10_SharedSink ==
    Quiet =>
        /\ serialized => shared.buf = WholeEncodings(order)
        /\ Len(shared.buf) = TotalLength(order)
        /\ \A p \in DOMAIN pc : pc[p] = "done" => wrote[p] = to_der_len(procVal[p]).n

\* header A, header B, content A, content B: neither encoding followed by the
\* other
C10_Witness ==
    /\ ~serialized /\ pc = [p \in Procs |-> "done"]
    /\ procVal[1] = [t |-> "Integer", n |-> 4]
    /\ procVal[2] = [t |-> "Boolean", b |-> TRUE]
    /\ shared.buf = <<2, 1, 1, 1, 4, 255>>
    /\ shared.buf # WholeEncodings(<<1, 2>>)
    /\ shared.buf # WholeEncodings(<<2, 1>>)

(***************************************************************************)
(* Properties of the serializer                                            *)
(***************************************************************************)
\* the writer the last call started from, and the octets the call added
Start == IF op \in VecOps THEN NewVec ELSE pre
Added == SubSeq(res.w.buf, Len(Start.buf) + 1, Len(res.w.buf))
NewCalls == SubSeq(res.w.calls, Len(Start.calls) + 1, Len(res.w.calls))

\* the required methods called on val itself, in call order
IsOwnCall(c) == c.self = val
OwnCalls == SelectSeq(NewCalls, IsOwnCall)
OwnCallNames == [i \in 1..Len(OwnCalls) |-> OwnCalls[i].op]

\* the two required methods of val run one after the other on the writer
HeaderAlone == write_der_header(val, Start)
ContentAfter == write_der_content(val, HeaderAlone.w)
OctetsOf(r, w) == SubSeq(r.w.buf, Len(w.buf) + 1, Len(r.w.buf))

Four == [t |-> "Integer", n |-> 4]

\* C5 (full-encoding composition): write_der calls write_der_header once and
\* then write_der_content once on the same writer, so the writer receives the
\* header octets immediately followed by the content octets, and on success
\* the count returned is the sum of the two counts (3 for the integer 4, the
\* writer then holding 02 01 04).
C5_WriteDerComposition ==
    (op = "write_der" /\ res.ok) =>
        /\ OwnCallNames = <<"write_der_header", "write_der_content">>
        /\ NewCalls[1] = [op |-> "write_der_header", self |-> val]
        /\ HeaderAlone.ok /\ ContentAfter.ok
        /\ Added = OctetsOf(HeaderAlone, Start) \o OctetsOf(ContentAfter, HeaderAlone.w)
        /\ sink.buf = pre.buf \o Added
        /\ res.n = HeaderAlone.n + ContentAfter.n
        /\ val = Four => (Added = <<2, 1, 4>> /\ res.n = 3)

\* write_der of the integer 4 into a writer that already holds an encoding
C5_Witness ==
    /\ op = "write_der" /\ res.ok /\ val = Four
    /\ pre.buf = <<5, 0>>
    /\ sink.buf = <<5, 0, 2, 1, 4>>
    /\ res.n = 3

\* header and content octets of the wrapped value V, serialized on its own
InnerHeader == write_der_header(made.inner, NewVec).w.buf
InnerContent == write_der_content(made.inner, NewVec).w.buf

\* C6 (wrapping semantics): serializing V.explicit(class, tag) yields the
\* outer tag (constructed), the outer length, then V's own header and
\* content; serializing V.implicit(class, structured, tag) yields the outer
\* tag with the caller-stated constructed flag, the outer length, then V's
\* content only.
C6_WrappingSemantics ==
    (op \in {"write_der", "to_der_vec"} /\ res.ok) =>
        /\ made.how = "explicit" =>
              Added = <<WrapperId(made.class, 1, made.tag)>>
                      \o EncodeLength(Len(InnerHeader) + Len(InnerContent))
                      \o InnerHeader \o InnerContent
        /\ made.how = "implicit" =>
              Added = <<WrapperId(made.class, made.structured, made.tag)>>
                      \o EncodeLength(Len(InnerContent))
                      \o InnerContent

\* the integer 4 under the explicit tag [0]: A0 03 02 01 04
C6_Witness ==
    /\ made.how = "explicit" /\ made.inner = Four
    /\ made.class = 2 /\ made.tag = 0
    /\ op = "to_der_vec" /\ res.ok
    /\ res.bytes = <<160, 3, 2, 1, 4>>

\* C7 (round trip): from_der on the bytes to_der_vec produced for a value v
\* succeeds, consumes all of them and yields a value equal to v (the integer 4
\* encodes to 02 01 04, which decodes back to 4).
C7_RoundTrip ==
    back.kind # "NotCalled" =>
        /\ back.kind = "Ok"
        /\ back.rest = <<>>
        /\ back.value = val
        /\ val = Four => res.bytes = <<2, 1, 4>>

\* a two-octet INTEGER encoded and decoded back
C7_Witness ==
    /\ back.kind = "Ok"
    /\ val = [t |-> "Integer", n |-> -129]
    /\ res.bytes = <<2, 2, 255, 127>>
    /\ back.value = val

Outcome(r) == [ok |-> r.ok, n |-> r.n, bytes |-> r.bytes, err |-> r.err, buf |-> r.w.buf]

\* C8 (reference transparency): every serializer operation on &T returns the
\* same result and leaves the same octets in the writer as T's own operation
\* on the referent, also when T supplies its own write_der_raw.
C8_ReferenceTransparency ==
    (val.t = "Ref" /\ op # "none") =>
        Outcome(res) = Outcome(ApplyOp(op, val.to, pre))

\* the same, restricted to the operations &T forwards to the referent and to
\* referents that keep the provided write_der_raw
C8_ForwardedOnly ==
    (val.t = "Ref" /\ op # "none" /\ (op \in {"write_der_raw", "to_der_vec_raw"} => val.to.t # "Any")) =>
        Outcome(res) = Outcome(ApplyOp(op, val.to, pre))

\* C9 (serialization error propagation): write_der, write_der_raw, to_der_vec
\* and to_der_vec_raw fail exactly when the header write or the content write
\* fails, with that error; after a failed header write the content write is
\* not attempted; after a failed content write the header octets stay in the
\* writer; the buffering operations return the error and no octets.
C9_ErrorPropagation ==
    (/\ op \in {"write_der", "write_der_raw", "to_der_vec", "to_der_vec_raw"}
     /\ op \in {"write_der_raw", "to_der_vec_raw"} => val.t # "Any") =>
        /\ res.ok <=> (HeaderAlone.ok /\ ContentAfter.ok)
        /\ ~HeaderAlone.ok =>
              /\ res.err = HeaderAlone.err
              /\ "write_der_content" \notin {OwnCallNames[i] : i \in 1..Len(OwnCallNames)}
              /\ res.w.buf = HeaderAlone.w.buf
        /\ (HeaderAlone.ok /\ ~ContentAfter.ok) =>
              /\ res.err = ContentAfter.err
              /\ res.w.buf = ContentAfter.w.buf
              /\ SubSeq(res.w.buf, 1, Len(HeaderAlone.w.buf)) = HeaderAlone.w.buf
        /\ (~res.ok /\ op \in VecOps) => res.bytes = <<>>

\* the writer takes the header of the integer 4 and has no room for the
\* content: write_der fails and the header octets stay behind
C9_Witness ==
    /\ op = "write_der" /\ val = Four /\ ~res.ok
    /\ res.err = "IoError"
    /\ pre.buf = <<>> /\ sink.buf = <<2, 1>>

(***************************************************************************)
(* Decoding: one input buffer, one target type, both entry points          *)
(***************************************************************************)
InitDec ==
    /\ bytes \in Inputs
    /\ ty \in Types
    /\ ber = NotCalled
    /\ der = NotCalled
    /\ EncIdle
    /\ ConcIdle

CallFromBer ==
    /\ ber = NotCalled
    /\ ber' = from_ber(ty, bytes)
    /\ UNCHANGED <<bytes, ty, der, encVars, concVars>>

CallFromDer ==
    /\ der = NotCalled
    /\ der' = from_der(ty, bytes)
    /\ UNCHANGED <<bytes, ty, ber, encVars, concVars>>

NextDec == CallFromBer \/ CallFromDer

SpecDec == InitDec /\ [][NextDec]_vars

(***************************************************************************)
(* Properties of the parser entry points                                   *)
(***************************************************************************)
BerCalled == ber.kind # "NotCalled"
DerCalled == der.kind # "NotCalled"

\* the node the low-level decoder hands to the entry points for this input
Low == DecodeNode(bytes)
NodeDecoded == Low.kind = "Ok"
NodeIndefinite == NodeDecoded /\ ~Low.any.header.length.definite

\* a non-minimal INTEGER encoding of 1: valid BER, not valid DER
NonMinimalOne == <<2, 2, 0, 1>>

\* C1 (superset law): whenever T::from_der(bytes) succeeds with value v,
\* T::from_ber(bytes) on the same bytes succeeds with the same value v; the
\* converse fails, e.g. on the non-minimal INTEGER 02 02 00 01, which from_ber
\* accepts and from_der rejects.
C1_SupersetLaw ==
    /\ (BerCalled /\ DerCalled /\ der.kind = "Ok")
          => (ber.kind = "Ok" /\ ber.value = der.value)
    /\ from_ber("Integer", NonMinimalOne).kind = "Ok"
    /\ from_der("Integer", NonMinimalOne).kind = "Failure"

\* both entry points accepted an INTEGER that is followed by more input
C1_Witness ==
    /\ ty = "Integer" /\ ber.kind = "Ok" /\ der.kind = "Ok"
    /\ der.value = [t |-> "Integer", n |-> 2]
    /\ der.rest # <<>>

\* C2 (indefinite-length rejection): if the decoded node has an
\* indefinite-form length, from_der returns Failure(IndefiniteLengthUnexpected)
\* whatever the constraint check or the conversion would return, while
\* from_ber accepts the same bytes whenever the conversion accepts the node.
C2_IndefiniteRejected ==
    /\ (DerCalled /\ NodeIndefinite)
          => (der.kind = "Failure" /\ der.err = "IndefiniteLengthUnexpected")
    /\ (BerCalled /\ NodeIndefinite /\ try_into(ty, Low.any).ok)
          => (/\ ber.kind = "Ok"
              /\ ber.value = try_into(ty, Low.any).value
              /\ ber.rest = Low.rest)

\* an indefinite-length SEQUENCE with its end-of-contents octets: accepted by
\* from_ber, rejected by from_der although constraint check and conversion
\* would both accept the node
C2_Witness ==
    /\ ty = "Sequence" /\ NodeIndefinite
    /\ check_constraints(ty, Low.any).ok /\ try_into(ty, Low.any).ok
    /\ ber.kind = "Ok"
    /\ der.kind = "Failure" /\ der.err = "IndefiniteLengthUnexpected"

\* the error a call of from_ber / from_der must report once the node is decoded
LaterErrorBer ==
    IF ~try_into(ty, Low.any).ok THEN try_into(ty, Low.any).err ELSE "none"
LaterErrorDer ==
    IF ~Low.any.header.length.definite THEN "IndefiniteLengthUnexpected"
    ELSE IF ~check_constraints(ty, Low.any).ok THEN check_constraints(ty, Low.any).err
    ELSE IF ~try_into(ty, Low.any).ok THEN try_into(ty, Low.any).err
    ELSE "none"

\* C3 (failure escalation): once the low-level decoder has returned a node,
\* every later error (length form, constraint check, conversion) is returned
\* as Failure carrying that error; a call returns Incomplete only when the
\* low-level decoder itself reported Incomplete.
C3_FailureEscalation ==
    /\ (BerCalled /\ NodeDecoded /\ LaterErrorBer # "none")
          => (ber.kind = "Failure" /\ ber.err = LaterErrorBer)
    /\ (DerCalled /\ NodeDecoded /\ LaterErrorDer # "none")
          => (der.kind = "Failure" /\ der.err = LaterErrorDer)
    /\ (BerCalled /\ ber.kind \notin {"Ok", "Failure"})
          => (ber.kind = "Incomplete" /\ Low.kind = "Incomplete")
    /\ (DerCalled /\ der.kind \notin {"Ok", "Failure"})
          => (der.kind = "Incomplete" /\ Low.kind = "Incomplete")

\* a decoded node rejected by the conversion under BER and by the constraint
\* check under DER, both reported as Failure
C3_Witness ==
    /\ NodeDecoded
    /\ ber.kind = "Failure" /\ ber.err = "InvalidLength"
    /\ der.kind = "Failure" /\ der.err = "InvalidLength"
    /\ ty = "Boolean" /\ Low.any.header.tag = 1

DerOrder == <<"Any::from_der", "is_definite", "check_constraints", "try_into">>

\* C4 (DER sequencing): every from_der call runs node decode, definite-length
\* test, check_constraints, conversion in that order; the conversion runs only
\* after the length is known definite and check_constraints succeeded on the
\* same unmodified node; a failing step ends the call with that failure, no
\* later step runs, and the call never falls back to what from_ber accepts.
C4_DerSequencing ==
    DerCalled =>
        LET s == der.steps
            n == Len(s)
        IN  /\ n \in 1..4
            /\ \A i \in 1..n : s[i].op = DerOrder[i]
            /\ s[1].arg = bytes
            /\ \A i \in 2..n : NodeDecoded /\ s[i].arg = Low.any
            /\ n >= 3 => is_definite(s[2].arg.header.length)
            /\ n = 4 => check_constraints(ty, s[3].arg).ok
            /\ n = 1 => (~NodeDecoded /\ der.kind = Low.kind /\ der.err = Low.err)
            /\ n = 2 => (der.kind = "Failure" /\ der.err = "IndefiniteLengthUnexpected")
            /\ n = 3 => (der.kind = "Failure" /\ der.err = check_constraints(ty, s[3].arg).err)
            /\ n = 4 => IF try_into(ty, s[4].arg).ok
                        THEN der.kind = "Ok" /\ der.value = try_into(ty, s[4].arg).value
                        ELSE der.kind = "Failure" /\ der.err = try_into(ty, s[4].arg).err
            /\ der.kind = "Ok" => n = 4

\* from_der stopped at the constraint check although from_ber accepts the input
C4_Witness ==
    /\ DerCalled /\ Len(der.steps) = 3
    /\ der.kind = "Failure" /\ der.err = "DerConstraintFailed"
    /\ ber.kind = "Ok"

====
